---- MODULE Spec2Model ----
(***************************************************************************)
(* A model of the training / evaluation control loop of                    *)
(* orientation-specific-chexnet:                                           *)
(*   src/model.py       checkpoint, train_model, train_cnn                 *)
(*   src/eval_model.py  make_pred_multilabel                               *)
(*                                                                         *)
(* Scores (AUC, F1 and their means) are kept as integers in units of       *)
(* 1/600, so that the mean of one, two or three per-label values drawn     *)
(* from ScoreVals is exact: 300 is 0.5, 360 is 0.6, 420 is 0.7.            *)
(* The learning rate is kept as an integer number of LR units; the base    *)
(* rate is a power of ten large enough for every division by 10 of a run   *)
(* to be exact.                                                            *)
(***************************************************************************)
EXTENDS Integers, Sequences, FiniteSets, TLC

\* ---------------------------------------------------------------- bounds
\* the number of epochs train_cnn asks for (NUM_EPOCHS, 100 in the source)
MaxEpochs == 6
\* number of batches the training loader yields per epoch
NumTrainBatches == 2
\* largest evaluation dataset
MaxSize == 33

\* ------------------------------------------------------ program constants
NoBestEpoch == -1
InitBestValAcc == 0
InitBestLoss == 999999
InitLastTrainLoss == -1
Patience == 3
DecayFactor == 10
StartEpoch == 1

\* numpy's nan, encoded as a value no score takes; only IsNaN, Lt and Gt
\* look at it, and no ordering holds of it
NaN == -1

\* the values a per-label metric takes when it is defined (0.5 and 0.7)
ScoreVals == {300, 420}
\* the values the epoch-mean training loss takes
LossVals == {2}

Orientations == {"all", "bogus"}
ValidOrientations == {"all", "ap", "pa", "lat", "trainer"}

ORIENTATION == <<"AP", "PA", "0">>
\* the batch size of make_pred_multilabel
BATCH_SIZE == 16
\* the findings make_pred_multilabel computes a metric for
FINDINGS == {"No Finding", "Enlarged Cardiomediastinum", "Cardiomegaly",
             "Lung Opacity", "Lung Lesion", "Edema", "Consolidation",
             "Pneumonia", "Atelectasis", "Pneumothorax", "Pleural Effusion",
             "Pleural Other", "Fracture", "Support Devices"}
\* dataset.PRED_LABEL of the dataset collaborator, cut to two findings
PRED_LABEL == <<"Cardiomegaly", "Edema">>

RECURSIVE Pow10(_)
Pow10(k) == IF k = 0 THEN 1 ELSE DecayFactor * Pow10(k - 1)

\* the caller's LR and WEIGHT_DECAY; LR is a power of ten of LR units, so
\* that every LR / 10 of a run is exact
CallerLR == Pow10(MaxEpochs + 1)
CallerWD == 1

\* ------------------------------------------------------------ comparisons
IsNaN(x) == x = NaN
\* Python's x < y and x > y on floats: False whenever an operand is nan
Lt(x, y) == ~IsNaN(x) /\ ~IsNaN(y) /\ x < y
Gt(x, y) == ~IsNaN(x) /\ ~IsNaN(y) /\ x > y

RECURSIVE SumSeq(_)
SumSeq(s) == IF s = <<>> THEN 0 ELSE Head(s) + SumSeq(Tail(s))

\* auc[~np.isnan(auc)].mean(): the mean of the defined values, nan when
\* there is none
NanMean(vals) ==
  LET defined == SelectSeq(vals, LAMBDA v : ~IsNaN(v))
  IN  IF defined = <<>> THEN NaN ELSE SumSeq(defined) \div Len(defined)

\* the labels of a task mode: the findings, or the three orientations
ModeLabels(multiclass) == IF multiclass THEN ORIENTATION ELSE PRED_LABEL

\* the metric tables an evaluation can return: one row per label, each
\* value defined or nan
MetricTables(multiclass) ==
  LET labels == ModeLabels(multiclass)
  IN  { [k \in 1..Len(labels) |-> [label |-> labels[k], value |-> f[k]]] :
          f \in [1..Len(labels) -> ScoreVals \cup {NaN}] }

TableValues(table) == [k \in 1..Len(table) |-> table[k].value]

\* ------------------------------------------------------------------ state
VARIABLES
  pc,                  \* the position of the run in train_cnn / train_model
  orientation,         \* train_cnn's orientation argument
  use_gpu,             \* torch.cuda.is_available()
  PATH_TO_CHECKPOINT,  \* "None", or "given" for a checkpoint to resume from
  dataloaders,         \* "none", or "built" once the datasets and loaders are
  results_dir,         \* whether results/ exists
  checkpoint_files,    \* results/checkpoint_<epoch>: epoch -> saved state
  log_train,           \* results/log_train, its rows
  logger,              \* results/logger, its events
  preds_csv,           \* results/preds.csv
  aucs_csv,            \* results/aucs.csv
  model,               \* the network: its parameters' version and its mode
  criterion,           \* the loss criterion
  optimizer,           \* the optimizer in use
  LR,                  \* train_model's LR
  weight_decay,        \* train_model's weight_decay
  epoch,               \* the epoch of the loop
  i,                   \* the batches of the epoch's training pass done
  best_loss,
  best_val_acc,
  best_epoch,
  last_train_loss,
  last_val_acc,
  metric,              \* the metric table of the last evaluation
  returned,            \* what train_model returned
  error,               \* the exception that ended the run, "none" if none
  \* make_pred_multilabel, when followed step by step
  ev_pc,               \* its position
  ev_metric,           \* its metric argument
  multiclass,          \* its multiclass argument
  dataset,             \* its dataset: the size, the labels no metric is defined for
  batch,               \* the index of the next batch of the dataloader
  pred_df,             \* the prediction records
  true_df,             \* the truth records
  column,              \* the number of columns of true_df gone through
  metric_df,           \* auc_df or f1_df
  f1_csv,              \* results/f1.csv
  ev_returned          \* what it returned

fileVars == <<results_dir, checkpoint_files, log_train, logger, preds_csv, aucs_csv>>
inputVars == <<orientation, use_gpu, PATH_TO_CHECKPOINT>>
runVars == <<epoch, i, best_loss, best_val_acc, best_epoch, last_train_loss,
             last_val_acc, metric>>
netVars == <<model, criterion, optimizer, LR, weight_decay>>
evalVars == <<ev_pc, ev_metric, multiclass, dataset, batch, pred_df, true_df,
              column, metric_df, f1_csv, ev_returned>>
trainVars == <<pc, inputVars, dataloaders, fileVars, netVars, runVars, returned,
              error>>
vars == <<trainVars, evalVars>>

\* values of what is not built yet
NoModel == [origin |-> "none", steps |-> 0, training |-> FALSE]
NoOptimizer == [lr |-> 0, weight_decay |-> 0, built |-> 0]
NoTable == <<>>
NoPreds == [origin |-> "none", steps |-> 0]
NoReturn == [model |-> NoModel, best_epoch |-> 0]
NoEvalReturn == [none |-> TRUE, pred_df |-> <<>>, metric_df |-> NoTable]

\* optim.Adam(..., lr=lr, betas=(0.9, 0.999), eps=1e-08, weight_decay=wd);
\* built counts the optimizers built before it in the run
NewOptimizer(lr, wd, n) == [lr |-> lr, weight_decay |-> wd, built |-> n]

\* a state dictionary that records the epoch as the best epoch
CheckpointStateOwnEpoch(m, train_loss, val_acc, ep, best_ep, lr, wd) ==
  [model |-> m, last_train_loss |-> train_loss, best_val_acc |-> val_acc,
   epoch |-> ep, best_epoch |-> ep, LR |-> lr, WD |-> wd]

\* the state dictionary checkpoint() builds ('metric' and 'rng_state' are
\* left out: nothing reads them back)
CheckpointState(m, train_loss, val_acc, ep, best_ep, lr, wd) ==
  [model |-> m, last_train_loss |-> train_loss, best_val_acc |-> val_acc,
   epoch |-> ep, best_epoch |-> best_ep, LR |-> lr, WD |-> wd]

\* a checkpoint name that leaves the epoch out
CheckpointNameFixed(ep) == 1

\* the name checkpoint() saves under: 'results/checkpoint_' + str(epoch)
CheckpointName(ep) == ep

\* torch.save(state, name): the file of that name holds the state
TorchSave(files, name, state) ==
  [n \in DOMAIN files \cup {name} |-> IF n = name THEN state ELSE files[n]]

\* files left in results/ by an earlier run, and the checkpoint a resumed
\* run is given
StaleModel == [origin |-> "stale", steps |-> 0, training |-> FALSE]
StaleCheckpoint ==
  CheckpointState(StaleModel, 2, 300, 1, 1, CallerLR, CallerWD)
StaleRows == <<<<"epoch", "train_loss", "average auc">>, <<1, 2, 300>>>>
GivenModel == [origin |-> "checkpoint", steps |-> 0, training |-> FALSE]
GivenCheckpoint ==
  CheckpointState(GivenModel, 1, 420, 4, 2, CallerLR \div 100, CallerWD)

\* make_pred_multilabel is not followed step by step
EvalIdle ==
  /\ ev_pc = "idle"
  /\ ev_metric = "auc"
  /\ multiclass = FALSE
  /\ dataset = [size |-> 0, undefined |-> {}]
  /\ batch = 0
  /\ pred_df = <<>>
  /\ true_df = <<>>
  /\ column = 0
  /\ metric_df = NoTable
  /\ f1_csv = NoTable
  /\ ev_returned = NoEvalReturn

Init ==
  /\ pc = "train_cnn"
  /\ orientation \in Orientations
  /\ use_gpu \in BOOLEAN
  /\ PATH_TO_CHECKPOINT \in {"None", "given"}
  /\ dataloaders = "none"
  /\ results_dir \in BOOLEAN
  /\ checkpoint_files = IF results_dir THEN [e \in {1} |-> StaleCheckpoint]
                                       ELSE [e \in {} |-> StaleCheckpoint]
  /\ log_train = IF results_dir THEN StaleRows ELSE <<>>
  /\ logger = IF results_dir THEN <<"stale">> ELSE <<>>
  /\ preds_csv = IF results_dir THEN [origin |-> "stale", steps |-> 0] ELSE NoPreds
  /\ aucs_csv = NoTable
  /\ model = NoModel
  /\ criterion = "none"
  /\ optimizer = NoOptimizer
  /\ LR = CallerLR
  /\ weight_decay = CallerWD
  /\ epoch = 0
  /\ i = 0
  /\ best_loss = InitBestLoss
  /\ best_val_acc = InitBestValAcc
  /\ best_epoch = NoBestEpoch
  /\ last_train_loss = InitLastTrainLoss
  /\ last_val_acc = 0
  /\ metric = NoTable
  /\ returned = NoReturn
  /\ error = "none"
  /\ EvalIdle

\* ------------------------------------------------------------- train_cnn
\* model.py:306-308
CheckOrientation ==
  /\ pc = "train_cnn"
  /\ pc' = IF orientation \in ValidOrientations THEN "check_results" ELSE "returned_none"
  /\ UNCHANGED <<inputVars, fileVars, netVars, runVars, returned, error>>
  /\ UNCHANGED <<dataloaders, evalVars>>

\* A train_cnn that clears an existing results/ and goes on.
CheckResultsDirOverwrite ==
  /\ pc = "check_results"
  /\ pc' = "build_data"
  /\ results_dir' = TRUE
  /\ checkpoint_files' = [e \in {} |-> StaleCheckpoint]
  /\ log_train' = <<>>
  /\ logger' = <<>>
  /\ preds_csv' = NoPreds
  /\ UNCHANGED <<aucs_csv, inputVars, netVars, runVars, returned, error>>
  /\ UNCHANGED <<dataloaders, evalVars>>

\* model.py:310-318: an existing results/ ends the call; otherwise rmtree
\* raises, the exception is passed over and results/ is made
CheckResultsDir ==
  /\ pc = "check_results"
  /\ IF results_dir
       THEN /\ pc' = "returned_none"
            /\ UNCHANGED fileVars
       ELSE /\ pc' = "build_data"
            /\ results_dir' = TRUE
            /\ UNCHANGED <<checkpoint_files, log_train, logger, preds_csv, aucs_csv>>
  /\ UNCHANGED <<inputVars, netVars, runVars, returned, error>>
  /\ UNCHANGED <<dataloaders, evalVars>>

\* model.py:321-463: the run log is opened, the datasets and loaders built
BuildData ==
  /\ pc = "build_data"
  /\ logger' = logger \o <<"wd_lr", "orientation", "flip", "cross_val">>
  /\ dataloaders' = "built"
  /\ pc' = "check_gpu"
  /\ UNCHANGED <<inputVars, results_dir, checkpoint_files, log_train, preds_csv,
                 aucs_csv, netVars, runVars, returned, error>>
  /\ UNCHANGED evalVars

\* A train_cnn that goes on to build the network without an accelerator.
CheckGpuWarns ==
  /\ pc = "check_gpu"
  /\ pc' = "build_model"
  /\ UNCHANGED <<inputVars, fileVars, netVars, runVars, returned, error>>
  /\ UNCHANGED <<dataloaders, evalVars>>

\* model.py:465-467
CheckGpu ==
  /\ pc = "check_gpu"
  /\ IF use_gpu
       THEN pc' = "build_model" /\ error' = error
       ELSE pc' = "raised" /\ error' = "ValueError"
  /\ UNCHANGED <<inputVars, fileVars, netVars, runVars, returned>>
  /\ UNCHANGED <<dataloaders, evalVars>>

\* model.py:469-491: a pretrained network with a new head, or the model of
\* the given checkpoint; the criterion of the task mode
BuildModel ==
  /\ pc = "build_model"
  /\ model' = IF PATH_TO_CHECKPOINT = "None"
                THEN [origin |-> "pretrained", steps |-> 0, training |-> TRUE]
                ELSE GivenCheckpoint.model
  /\ criterion' = IF orientation # "trainer" THEN "BCELoss" ELSE "CrossEntropyLoss"
  /\ pc' = "build_optimizer"
  /\ UNCHANGED <<inputVars, fileVars, optimizer, LR, weight_decay, runVars,
                 returned, error>>
  /\ UNCHANGED <<dataloaders, evalVars>>

\* A resume that continues from the checkpoint's learning rate, epoch and
\* best epoch.
EnterTrainModelResumed ==
  /\ pc = "build_optimizer"
  /\ LR' = IF PATH_TO_CHECKPOINT = "None" THEN CallerLR ELSE GivenCheckpoint.LR
  /\ optimizer' = NewOptimizer(LR', CallerWD, 0)
  /\ weight_decay' = CallerWD
  /\ epoch' = IF PATH_TO_CHECKPOINT = "None" THEN StartEpoch
                                            ELSE GivenCheckpoint.epoch + 1
  /\ best_loss' = InitBestLoss
  /\ best_val_acc' = IF PATH_TO_CHECKPOINT = "None" THEN InitBestValAcc
                                                   ELSE GivenCheckpoint.best_val_acc
  /\ best_epoch' = IF PATH_TO_CHECKPOINT = "None" THEN NoBestEpoch
                                                 ELSE GivenCheckpoint.best_epoch
  /\ last_train_loss' = InitLastTrainLoss
  /\ last_val_acc' = 0
  /\ logger' = Append(logger, "time")
  /\ pc' = "epoch_head"
  /\ UNCHANGED <<inputVars, results_dir, checkpoint_files, log_train, preds_csv,
                 aucs_csv, model, criterion, i, metric, returned, error>>
  /\ UNCHANGED <<dataloaders, evalVars>>

\* model.py:495-512 and 96-113: the optimizer is built from the caller's LR
\* and WEIGHT_DECAY and train_model is entered
EnterTrainModel ==
  /\ pc = "build_optimizer"
  /\ optimizer' = NewOptimizer(CallerLR, CallerWD, 0)
  /\ LR' = CallerLR
  /\ weight_decay' = CallerWD
  /\ epoch' = StartEpoch
  /\ best_loss' = InitBestLoss
  /\ best_val_acc' = InitBestValAcc
  /\ best_epoch' = NoBestEpoch
  /\ last_train_loss' = InitLastTrainLoss
  /\ last_val_acc' = 0
  /\ logger' = Append(logger, "time")
  /\ pc' = "epoch_head"
  /\ UNCHANGED <<inputVars, results_dir, checkpoint_files, log_train, preds_csv,
                 aucs_csv, model, criterion, i, metric, returned, error>>
  /\ UNCHANGED <<dataloaders, evalVars>>

\* ----------------------------------------------------------- train_model
\* a decay test written as "not at least the best": it fires on nan
ShouldDecayUnlessAtLeast(val_acc, best) == IsNaN(val_acc) \/ val_acc < best

\* a decay test that also fires on a tie
ShouldDecayOnTie(val_acc, best) == ~IsNaN(val_acc) /\ val_acc <= best

\* model.py:210: decay when the epoch's score is below the best so far
ShouldDecay(val_acc, best) == Lt(val_acc, best)

\* a decay step that halves the rate
DecayedLRHalf(lr) == lr \div 2

\* model.py:219
DecayedLR(lr) == lr \div DecayFactor

\* a best-tracking test that also takes a score equal to the best
IsNewBestOrTie(val_acc, best) == ~IsNaN(val_acc) /\ val_acc >= best

\* model.py:235
IsNewBest(val_acc, best) == Gt(val_acc, best)

\* a stopping test that never breaks
ShouldStopNever(ep, best_ep) == FALSE

\* a stopping test that waits one epoch longer
ShouldStopLate(ep, best_ep) == (ep - best_ep) > Patience

\* model.py:270
ShouldStop(ep, best_ep) == (ep - best_ep) >= Patience

\* An epoch head that leaves the model's mode as the evaluation left it.
EpochHeadNoTrainMode ==
  /\ pc = "epoch_head"
  /\ logger' = Append(logger, "epoch")
  /\ i' = 0
  /\ pc' = "train"
  /\ UNCHANGED <<inputVars, results_dir, checkpoint_files, log_train, preds_csv,
                 aucs_csv, netVars, epoch, best_loss, best_val_acc, best_epoch,
                 last_train_loss, last_val_acc, metric, returned, error>>
  /\ UNCHANGED <<dataloaders, evalVars>>

\* model.py:116-131: the epoch begins, the model is put in training mode
EpochHead ==
  /\ pc = "epoch_head"
  /\ logger' = Append(logger, "epoch")
  /\ i' = 0
  /\ model' = [model EXCEPT !.training = TRUE]
  /\ pc' = "train"
  /\ UNCHANGED <<inputVars, results_dir, checkpoint_files, log_train, preds_csv,
                 aucs_csv, criterion, optimizer, LR, weight_decay, epoch,
                 best_loss, best_val_acc, best_epoch, last_train_loss,
                 last_val_acc, metric, returned, error>>
  /\ UNCHANGED <<dataloaders, evalVars>>

\* model.py:134-153: one batch: forward, loss, backward, optimizer.step()
TrainBatch ==
  /\ pc = "train"
  /\ i < NumTrainBatches
  /\ i' = i + 1
  /\ model' = [model EXCEPT !.steps = @ + 1]
  /\ UNCHANGED <<pc, inputVars, fileVars, criterion, optimizer, LR, weight_decay,
                 epoch, best_loss, best_val_acc, best_epoch, last_train_loss,
                 last_val_acc, metric, returned, error>>
  /\ UNCHANGED <<dataloaders, evalVars>>

\* A training loop that saves the epoch's checkpoint when a batch fails.
TrainBatchFailsSaves ==
  /\ pc = "train"
  /\ i < NumTrainBatches
  /\ pc' = "raised"
  /\ error' = "RuntimeError"
  /\ checkpoint_files' = TorchSave(checkpoint_files, CheckpointName(epoch),
                            CheckpointState(model, last_train_loss, last_val_acc,
                                            epoch, best_epoch, LR, weight_decay))
  /\ UNCHANGED <<inputVars, results_dir, log_train, logger, preds_csv, aucs_csv,
                 netVars, runVars, returned>>
  /\ UNCHANGED <<dataloaders, evalVars>>

\* model.py:134-153: an exception of the forward or backward pass is not
\* caught anywhere: it ends train_model and train_cnn
TrainBatchFails ==
  /\ pc = "train"
  /\ i < NumTrainBatches
  /\ pc' = "raised"
  /\ error' = "RuntimeError"
  /\ UNCHANGED <<inputVars, fileVars, netVars, runVars, returned>>
  /\ UNCHANGED <<dataloaders, evalVars>>

\* model.py:160-183: the epoch's mean loss, the best loss so far
EndTrain ==
  /\ pc = "train"
  /\ i = NumTrainBatches
  /\ \E epoch_loss \in LossVals :
       /\ last_train_loss' = epoch_loss
       /\ best_loss' = IF epoch_loss < best_loss THEN epoch_loss ELSE best_loss
  /\ logger' = Append(logger, "train_loss")
  /\ pc' = "eval"
  /\ UNCHANGED <<inputVars, results_dir, checkpoint_files, log_train, preds_csv,
                 aucs_csv, netVars, epoch, i, best_val_acc, best_epoch,
                 last_val_acc, metric, returned, error>>
  /\ UNCHANGED <<dataloaders, evalVars>>

\* model.py:187-207: make_pred_multilabel(..., 'auc') on the validation
\* set: the model goes to inference mode, preds.csv and aucs.csv are
\* written anew, and the mean of the defined AUCs is the epoch's score
Evaluate ==
  /\ pc = "eval"
  /\ \E table \in MetricTables(criterion # "BCELoss") :
       /\ metric' = table
       /\ aucs_csv' = table
       /\ last_val_acc' = NanMean(TableValues(table))
  /\ model' = [model EXCEPT !.training = FALSE]
  /\ preds_csv' = [origin |-> model.origin, steps |-> model.steps]
  /\ logger' = Append(logger, "val_acc")
  /\ pc' = "decay"
  /\ UNCHANGED <<inputVars, results_dir, checkpoint_files, log_train, criterion,
                 optimizer, LR, weight_decay, epoch, i, best_loss, best_val_acc,
                 best_epoch, last_train_loss, returned, error>>
  /\ UNCHANGED <<dataloaders, evalVars>>

\* model.py:187-196, eval_model.py:34-69: an exception of the evaluation's
\* forward pass is not caught either; the model is in inference mode by
\* then and no artifact is written yet
EvaluateFails ==
  /\ pc = "eval"
  /\ model' = [model EXCEPT !.training = FALSE]
  /\ pc' = "raised"
  /\ error' = "RuntimeError"
  /\ UNCHANGED <<inputVars, fileVars, criterion, optimizer, LR, weight_decay,
                 runVars, returned>>
  /\ UNCHANGED <<dataloaders, evalVars>>

\* model.py:209-231: LR / 10 and a new optimizer when the score is below
\* the best so far
DecayLR ==
  /\ pc = "decay"
  /\ IF ShouldDecay(last_val_acc, best_val_acc)
       THEN /\ LR' = DecayedLR(LR)
            /\ optimizer' = NewOptimizer(DecayedLR(LR), weight_decay, optimizer.built + 1)
            /\ logger' = Append(logger, "decay")
       ELSE UNCHANGED <<LR, optimizer, logger>>
  /\ pc' = "track"
  /\ UNCHANGED <<inputVars, results_dir, checkpoint_files, log_train, preds_csv,
                 aucs_csv, model, criterion, weight_decay, runVars, returned, error>>
  /\ UNCHANGED <<dataloaders, evalVars>>

\* model.py:234-237
TrackBest ==
  /\ pc = "track"
  /\ IF IsNewBest(last_val_acc, best_val_acc)
       THEN best_val_acc' = last_val_acc /\ best_epoch' = epoch
       ELSE UNCHANGED <<best_val_acc, best_epoch>>
  /\ pc' = "save"
  /\ UNCHANGED <<inputVars, fileVars, netVars, epoch, i, best_loss,
                 last_train_loss, last_val_acc, metric, returned, error>>
  /\ UNCHANGED <<dataloaders, evalVars>>

\* model.py:239-242 and 37-62: the epoch's checkpoint
SaveCheckpoint ==
  /\ pc = "save"
  /\ checkpoint_files' =
       TorchSave(checkpoint_files, CheckpointName(epoch),
                 CheckpointState(model, last_train_loss, last_val_acc, epoch,
                                 best_epoch, LR, weight_decay))
  /\ logger' = Append(logger, "saving")
  /\ pc' = "log"
  /\ UNCHANGED <<inputVars, results_dir, log_train, preds_csv, aucs_csv, netVars,
                 runVars, returned, error>>
  /\ UNCHANGED <<dataloaders, evalVars>>

\* A log step that writes the header in every epoch.
LogTrainAlwaysHeader ==
  /\ pc = "log"
  /\ log_train' = log_train \o <<<<"epoch", "train_loss", "average auc">>,
                                 <<epoch, last_train_loss, last_val_acc>>>>
  /\ pc' = "stop"
  /\ UNCHANGED <<inputVars, results_dir, checkpoint_files, logger, preds_csv,
                 aucs_csv, netVars, runVars, returned, error>>
  /\ UNCHANGED <<dataloaders, evalVars>>

\* model.py:244-249: the epoch's row, after the header in epoch 1
LogTrain ==
  /\ pc = "log"
  /\ log_train' = (IF epoch = 1
                     THEN Append(log_train, <<"epoch", "train_loss", "average auc">>)
                     ELSE log_train)
                  \o <<<<epoch, last_train_loss, last_val_acc>>>>
  /\ pc' = "stop"
  /\ UNCHANGED <<inputVars, results_dir, checkpoint_files, logger, preds_csv,
                 aucs_csv, netVars, runVars, returned, error>>
  /\ UNCHANGED <<dataloaders, evalVars>>

\* model.py:251-274 and 116: break on no improvement in 3 epochs, else the
\* next epoch of range(start_epoch, num_epochs + 1), if any
StopCheck ==
  /\ pc = "stop"
  /\ IF ShouldStop(epoch, best_epoch)
       THEN /\ logger' = logger \o <<"best", "break", "complete">>
            /\ pc' = "load_best"
            /\ epoch' = epoch
       ELSE IF epoch < MaxEpochs
         THEN /\ logger' = Append(logger, "best")
              /\ pc' = "epoch_head"
              /\ epoch' = epoch + 1
         ELSE /\ logger' = logger \o <<"best", "complete">>
              /\ pc' = "load_best"
              /\ epoch' = epoch
  /\ UNCHANGED <<inputVars, results_dir, checkpoint_files, log_train, preds_csv,
                 aucs_csv, netVars, i, best_loss, best_val_acc, best_epoch,
                 last_train_loss, last_val_acc, metric, returned, error>>
  /\ UNCHANGED <<dataloaders, evalVars>>

\* A terminal step that evaluates the loaded best model again and writes
\* its predictions.
LoadBestReevaluates ==
  /\ pc = "load_best"
  /\ IF CheckpointName(best_epoch) \in DOMAIN checkpoint_files
       THEN /\ model' = checkpoint_files[CheckpointName(best_epoch)].model
            /\ returned' = [model |-> model', best_epoch |-> best_epoch]
            /\ preds_csv' = [origin |-> model'.origin, steps |-> model'.steps]
            /\ pc' = "done"
            /\ error' = error
       ELSE /\ pc' = "raised"
            /\ error' = "FileNotFoundError"
            /\ UNCHANGED <<model, returned, preds_csv>>
  /\ UNCHANGED <<inputVars, results_dir, checkpoint_files, log_train, logger,
                 aucs_csv, criterion, optimizer, LR, weight_decay, runVars>>
  /\ UNCHANGED <<dataloaders, evalVars>>

\* model.py:283-287: torch.load of the best epoch's checkpoint, which raises
\* when there is no file of that name
LoadBest ==
  /\ pc = "load_best"
  /\ IF CheckpointName(best_epoch) \in DOMAIN checkpoint_files
       THEN /\ model' = checkpoint_files[CheckpointName(best_epoch)].model
            /\ returned' = [model |-> model', best_epoch |-> best_epoch]
            /\ pc' = "done"
            /\ error' = error
       ELSE /\ pc' = "raised"
            /\ error' = "FileNotFoundError"
            /\ UNCHANGED <<model, returned>>
  /\ UNCHANGED <<inputVars, fileVars, criterion, optimizer, LR, weight_decay,
                 runVars>>
  /\ UNCHANGED <<dataloaders, evalVars>>

Next ==
  \/ CheckOrientation
  \/ CheckResultsDir
  \/ BuildData
  \/ CheckGpu
  \/ BuildModel
  \/ EnterTrainModel
  \/ EpochHead
  \/ TrainBatch
  \/ TrainBatchFails
  \/ EndTrain
  \/ Evaluate
  \/ EvaluateFails
  \/ DecayLR
  \/ TrackBest
  \/ SaveCheckpoint
  \/ LogTrain
  \/ StopCheck
  \/ LoadBest

Spec == Init /\ [][Next]_vars

\* -------------------------------------------------- make_pred_multilabel
\* dataset.df.index: the identifier of each dataset position, 0-based
DfIndex(size) == [k \in 0..(size - 1) |-> <<"image", k>>]

\* DataLoader(dataset, BATCH_SIZE, shuffle=False): the number of batches,
\* and the dataset positions of batch b in order, the last batch shorter
LoaderBatches(size) == (size + BATCH_SIZE - 1) \div BATCH_SIZE
LoaderBatch(size, b) ==
  LET first == BATCH_SIZE * b
      len == IF size - first < BATCH_SIZE THEN size - first ELSE BATCH_SIZE
  IN  [k \in 1..len |-> first + (k - 1)]

\* a lookup that leaves the batch's offset out
RowPositionInBatch(b, j) == j

\* eval_model.py:80-81: the position in dataset.df.index of item j of batch b
RowPosition(b, j) == BATCH_SIZE * b + j

\* eval_model.py:76-101: the rows of one batch; each carries the identifier
\* looked up for it and the sample its values come from
BatchRows(size, b) ==
  LET items == LoaderBatch(size, b)
  IN  [k \in 1..Len(items) |->
         [ImageIndex |-> DfIndex(size)[RowPosition(b, k - 1)], sample |-> items[k]]]

\* an identifier lookup of the batch is out of range: IndexError
BatchIndexError(size, b) ==
  \E k \in 1..Len(LoaderBatch(size, b)) : RowPosition(b, k - 1) \notin 0..(size - 1)

\* the columns of true_df: none but "Image Index" before the first row
TrueColumns(rows, mc) ==
  IF rows = <<>> THEN <<"Image Index">> ELSE <<"Image Index">> \o ModeLabels(mc)

\* eval_model.py:118-135: the columns no metric is computed for
SkipColumn(c, mc) ==
  \/ ~mc /\ c \notin FINDINGS
  \/ mc /\ c \notin {"AP", "PA", "0"}

\* sklearn's metric raises for the labels no metric is defined for
MetricFails(c, undefined) == c \in undefined

\* whether the first call of the metric is inside a try: roc_auc_score is
\* (eval_model.py:143-146), f1_score is not (eval_model.py:152-153)
FirstCallGuarded(kind) == kind = "auc"

\* eval_model.py:141-159: the exception of a failing metric leaves the
\* function when its first call is outside a try
MetricEscapes(kind, c, undefined) ==
  MetricFails(c, undefined) /\ ~FirstCallGuarded(kind)

\* eval_model.py:142-146, 151-156: the row's value is nan unless the metric
\* was computed
MetricValue(c, undefined, v) == IF MetricFails(c, undefined) THEN NaN ELSE v

InitEval ==
  /\ pc = "standalone"
  /\ orientation = "all"
  /\ use_gpu = TRUE
  /\ PATH_TO_CHECKPOINT = "None"
  /\ dataloaders = "built"
  /\ results_dir = TRUE
  /\ checkpoint_files = [e \in {} |-> StaleCheckpoint]
  /\ log_train = <<>>
  /\ logger = <<>>
  /\ preds_csv = NoPreds
  /\ aucs_csv = NoTable
  /\ model \in {[origin |-> "pretrained", steps |-> NumTrainBatches, training |-> t] :
                  t \in BOOLEAN}
  /\ criterion = "BCELoss"
  /\ optimizer = NewOptimizer(CallerLR, CallerWD, 0)
  /\ LR = CallerLR
  /\ weight_decay = CallerWD
  /\ epoch = StartEpoch
  /\ i = NumTrainBatches
  /\ best_loss = InitBestLoss
  /\ best_val_acc = InitBestValAcc
  /\ best_epoch = NoBestEpoch
  /\ last_train_loss = InitLastTrainLoss
  /\ last_val_acc = 0
  /\ metric = NoTable
  /\ returned = NoReturn
  /\ error = "none"
  /\ ev_pc = "called"
  /\ ev_metric \in {"auc", "f1", "acc"}
  /\ multiclass \in BOOLEAN
  /\ dataset \in {[size |-> n, undefined |-> u] :
                    n \in 1..MaxSize,
                    u \in SUBSET {ModeLabels(multiclass)[k] :
                                    k \in 1..Len(ModeLabels(multiclass))}}
  /\ batch = 0
  /\ pred_df = <<>>
  /\ true_df = <<>>
  /\ column = 0
  /\ metric_df = NoTable
  /\ f1_csv = NoTable
  /\ ev_returned = NoEvalReturn

\* eval_model.py:27-53: the model goes to inference mode, the loader and
\* the empty frames are made
EvalStart ==
  /\ ev_pc = "called"
  /\ model' = [model EXCEPT !.training = FALSE]
  /\ pred_df' = <<>>
  /\ true_df' = <<>>
  /\ batch' = 0
  /\ ev_pc' = "batches"
  /\ UNCHANGED <<pc, dataloaders, inputVars, fileVars, criterion, optimizer, LR, weight_decay,
                 runVars, returned, error, ev_metric, multiclass, dataset, column,
                 metric_df, f1_csv, ev_returned>>

\* A batch step whose forward pass updates the model (as batch
\* normalisation does outside inference mode).
EvalBatchUpdatesModel ==
  /\ ev_pc = "batches"
  /\ batch < LoaderBatches(dataset.size)
  /\ IF BatchIndexError(dataset.size, batch)
       THEN /\ ev_pc' = "raised"
            /\ error' = "IndexError"
            /\ UNCHANGED <<pred_df, true_df, batch>>
       ELSE /\ pred_df' = pred_df \o BatchRows(dataset.size, batch)
            /\ true_df' = true_df \o BatchRows(dataset.size, batch)
            /\ batch' = batch + 1
            /\ UNCHANGED <<ev_pc, error>>
  /\ model' = [model EXCEPT !.steps = @ + 1]
  /\ UNCHANGED <<pc, dataloaders, inputVars, fileVars, criterion, optimizer, LR,
                 weight_decay, runVars, returned, ev_metric, multiclass, dataset,
                 column, metric_df, f1_csv, ev_returned>>

\* eval_model.py:56-101: one batch of the loader
EvalBatch ==
  /\ ev_pc = "batches"
  /\ batch < LoaderBatches(dataset.size)
  /\ IF BatchIndexError(dataset.size, batch)
       THEN /\ ev_pc' = "raised"
            /\ error' = "IndexError"
            /\ UNCHANGED <<pred_df, true_df, batch>>
       ELSE /\ pred_df' = pred_df \o BatchRows(dataset.size, batch)
            /\ true_df' = true_df \o BatchRows(dataset.size, batch)
            /\ batch' = batch + 1
            /\ UNCHANGED <<ev_pc, error>>
  /\ UNCHANGED <<pc, dataloaders, inputVars, fileVars, netVars, runVars, returned, ev_metric,
                 multiclass, dataset, column, metric_df, f1_csv, ev_returned>>

\* eval_model.py:107-110: the empty metric table
MakeTable ==
  /\ ev_pc = "batches"
  /\ batch = LoaderBatches(dataset.size)
  /\ metric_df' = <<>>
  /\ column' = 0
  /\ ev_pc' = "columns"
  /\ UNCHANGED <<trainVars, ev_metric, multiclass, dataset, batch, pred_df, true_df,
                 f1_csv, ev_returned>>

\* eval_model.py:116-160: one column of true_df
AggregateColumn ==
  /\ ev_pc = "columns"
  /\ column < Len(TrueColumns(true_df, multiclass))
  /\ LET c == TrueColumns(true_df, multiclass)[column + 1]
     IN  IF SkipColumn(c, multiclass) \/ ev_metric \notin {"auc", "f1"}
           THEN /\ column' = column + 1
                /\ UNCHANGED <<metric_df, ev_pc, error>>
           ELSE IF MetricEscapes(ev_metric, c, dataset.undefined)
             THEN /\ ev_pc' = "raised"
                  /\ error' = "ValueError"
                  /\ UNCHANGED <<metric_df, column>>
             ELSE /\ \E v \in ScoreVals :
                       metric_df' = Append(metric_df,
                         [label |-> c, value |-> MetricValue(c, dataset.undefined, v)])
                  /\ column' = column + 1
                  /\ UNCHANGED <<ev_pc, error>>
  /\ UNCHANGED <<pc, dataloaders, inputVars, fileVars, netVars, runVars, returned, ev_metric,
                 multiclass, dataset, batch, pred_df, true_df, f1_csv, ev_returned>>

\* eval_model.py:163-170: preds.csv and the metric's file are written and the
\* frames returned; nothing is returned for a metric that is neither
WriteResults ==
  /\ ev_pc = "columns"
  /\ column = Len(TrueColumns(true_df, multiclass))
  /\ preds_csv' = [origin |-> model.origin, steps |-> model.steps]
  /\ aucs_csv' = IF ev_metric = "auc" THEN metric_df ELSE aucs_csv
  /\ f1_csv' = IF ev_metric = "f1" THEN metric_df ELSE f1_csv
  /\ ev_returned' = IF ev_metric \in {"auc", "f1"}
                      THEN [none |-> FALSE, pred_df |-> pred_df, metric_df |-> metric_df]
                      ELSE NoEvalReturn
  /\ ev_pc' = "returned"
  /\ UNCHANGED <<pc, dataloaders, inputVars, results_dir, checkpoint_files, log_train, logger,
                 netVars, runVars, returned, error, ev_metric, multiclass, dataset,
                 batch, pred_df, true_df, column, metric_df>>

NextEval ==
  \/ EvalStart
  \/ EvalBatch
  \/ MakeTable
  \/ AggregateColumn
  \/ WriteResults

SpecEval == InitEval /\ [][NextEval]_vars

\* A training run, or one call of make_pred_multilabel followed batch by
\* batch: the two kinds of behaviour side by side.
InitBoth == Init \/ InitEval
NextBoth == Next \/ NextEval
SpecBoth == InitBoth /\ [][NextBoth]_vars

\* ================================================================ claims
\* the positions of train_model's epoch loop, and those of an epoch after
\* its checkpoint was written
InLoop == pc \in {"epoch_head", "train", "eval", "decay", "track", "save", "log", "stop"}
AfterSave == pc \in {"log", "stop"}

\* the rows of log_train after its header, and the scores they record
DataRows == IF log_train = <<>> THEN <<>> ELSE Tail(log_train)
LoggedScores == [k \in 1..Len(DataRows) |-> DataRows[k][3]]

\* the learning rate the epoch began with, read from the checkpoint before
LRBefore(ep) == IF ep = 1 THEN CallerLR ELSE checkpoint_files[ep - 1].LR

\* the loop was left by the break of model.py:270-274
BrokeOut == Len(logger) >= 2 /\ logger[Len(logger) - 1] = "break"

\* ---------------------------------------------------------------------
\* C1: every epoch is classified against the best_val_acc held before the
\* epoch's update: the decay step lowers LR iff the epoch's score is below
\* it, the tracking step sets best_val_acc and best_epoch iff the score is
\* above it, no epoch does both, and a score equal to it does neither. The
\* scores 0.5, 0.5, 0.7, 0.6 give: new best, nothing, new best, decay.
C1_DecayStep ==
  pc = "decay" =>
    /\ (LR' # LR) <=> (last_val_acc # NaN /\ last_val_acc < best_val_acc)
    /\ UNCHANGED <<best_val_acc, best_epoch>>
C1_TrackStep ==
  pc = "track" =>
    /\ (best_epoch' = epoch /\ best_val_acc' = last_val_acc)
         <=> (last_val_acc # NaN /\ last_val_acc > best_val_acc)
    /\ ~(last_val_acc # NaN /\ last_val_acc > best_val_acc)
         => UNCHANGED <<best_val_acc, best_epoch>>
    /\ UNCHANGED LR
C1_Epoch ==
  pc = "save" =>
    /\ ~(LR # LRBefore(epoch) /\ best_epoch = epoch)
    /\ (best_epoch # epoch /\ last_val_acc = best_val_acc) => LR = LRBefore(epoch)
C1_Example ==
  (Len(LoggedScores) >= 4 /\ SubSeq(LoggedScores, 1, 4) = <<300, 300, 420, 360>>) =>
    /\ checkpoint_files[1].best_epoch = 1 /\ checkpoint_files[1].LR = CallerLR
    /\ checkpoint_files[2].best_epoch = 1 /\ checkpoint_files[2].LR = CallerLR
    /\ checkpoint_files[3].best_epoch = 3 /\ checkpoint_files[3].LR = CallerLR
    /\ checkpoint_files[4].best_epoch = 3
    /\ checkpoint_files[4].LR * DecayFactor = CallerLR
ImprovedAfter(b) ==
  /\ b >= 1 /\ b \in DOMAIN checkpoint_files
  /\ checkpoint_files[b].best_epoch = b
  /\ best_epoch \in (b + 1)..(b + 3)

\* C2 as stated: with best_epoch = b >= 1 and NUM_EPOCHS >= b+3 the loop is
\* left at the end of epoch b+3 when no epoch of b+1..b+3 improved, never
\* later, and is not left at the end of epoch b+3 when one of them did.
C2_Stated ==
  /\ (InLoop /\ best_epoch >= 1) => epoch - best_epoch <= Patience
  /\ (pc = "load_best" /\ best_epoch >= 1 /\ epoch < MaxEpochs)
       => epoch = best_epoch + Patience
  /\ pc = "load_best" =>
       ~(\E b \in 1..MaxEpochs : epoch = b + Patience /\ ImprovedAfter(b))

\* C2 as amended: the loop is left at the end of epoch b+3 when no epoch of
\* b+1..b+3 improved and never runs an epoch beyond it; after an improvement
\* in b+1..b+3 the break is not taken at b+3: the loop goes on to epoch b+4,
\* unless b+3 is the last epoch asked for.
C2_StopStep ==
  pc = "stop" /\ best_epoch >= 1 =>
    /\ epoch - best_epoch = Patience
         => pc' = "load_best" /\ logger'[Len(logger') - 1] = "break"
    /\ epoch - best_epoch < Patience /\ epoch < MaxEpochs
         => pc' = "epoch_head" /\ epoch' = epoch + 1
    /\ epoch - best_epoch < Patience /\ epoch = MaxEpochs
         => pc' = "load_best" /\ logger'[Len(logger') - 1] # "break"
C2_Distance ==
  /\ (InLoop /\ best_epoch >= 1) => epoch - best_epoch <= Patience
  /\ (pc = "load_best" /\ best_epoch >= 1 /\ epoch < MaxEpochs)
       => epoch = best_epoch + Patience
  /\ pc = "load_best" =>
       \A b \in 1..MaxEpochs :
         (epoch = b + Patience /\ ImprovedAfter(b)) => (epoch = MaxEpochs /\ ~BrokeOut)
C2_EarlyStop ==
  /\ [][C2_StopStep]_vars
  /\ []C2_Distance

\* best_epoch = 2, an improvement at epoch 4, and epoch 6 is running
C2_Witness ==
  /\ pc = "train" /\ epoch = 6
  /\ checkpoint_files[2].best_epoch = 2
  /\ best_epoch = 4

\* ---------------------------------------------------------------------
\* C3: the break is taken at the end of epoch e only if the epochs e-2, e-1
\* and e all completed without a new best; never before three epochs ran.
C3_ThreeEpochs ==
  (pc = "load_best" /\ BrokeOut) =>
    /\ epoch >= 3
    /\ \A k \in (epoch - 2)..epoch :
         k \in DOMAIN checkpoint_files /\ checkpoint_files[k].best_epoch # k

\* ---------------------------------------------------------------------
\* C4: when the loop is left without an exception, best_epoch is an epoch of
\* 1..epoch with a checkpoint, the reload does not fail, and the model of
\* that checkpoint is returned with best_epoch.
C4_ReturnsBest ==
  /\ pc = "load_best" =>
       best_epoch \in 1..epoch /\ CheckpointName(best_epoch) \in DOMAIN checkpoint_files
  /\ error # "FileNotFoundError"
  /\ pc = "done" =>
       /\ returned.best_epoch = best_epoch
       /\ returned.model = checkpoint_files[best_epoch].model
       /\ returned.model.steps = best_epoch * NumTrainBatches

\* ---------------------------------------------------------------------
\* the epochs of the run whose checkpoint step has run
Completed ==
  IF pc \in {"log", "stop", "load_best", "done"} THEN epoch
  ELSE IF pc \in {"epoch_head", "train", "eval", "decay", "track", "save"} THEN epoch - 1
  ELSE IF pc = "raised" /\ error = "RuntimeError" THEN epoch - 1
  ELSE IF pc = "raised" /\ error = "FileNotFoundError" THEN epoch
  ELSE 0

\* C5: one checkpoint per completed epoch, whatever the epoch's outcome, each
\* under its epoch's number: the checkpoints are exactly those of the epochs
\* 1..k completed, and no later epoch changes an earlier one's.
C5_Files ==
  (~(pc \in {"train_cnn", "check_results", "returned_none"})) =>
    /\ DOMAIN checkpoint_files = 1..Completed
    /\ \A k \in DOMAIN checkpoint_files :
         /\ checkpoint_files[k].epoch = k
         /\ checkpoint_files[k].model.steps = k * NumTrainBatches
C5_Kept ==
  \A k \in DOMAIN checkpoint_files :
    k \in DOMAIN checkpoint_files' /\ checkpoint_files'[k] = checkpoint_files[k]
C5_OnePerEpoch ==
  /\ []C5_Files
  /\ [][C5_Kept]_vars

\* the break was taken at epoch 5 after a best at 2 with a decay since: five
\* checkpoints, improving, decaying and stopping epochs among them
C5_Witness ==
  /\ pc = "load_best" /\ BrokeOut /\ epoch = 5 /\ best_epoch = 2
  /\ LR < CallerLR
  /\ DOMAIN checkpoint_files = 1..5

\* ---------------------------------------------------------------------
\* C6: the validation-score field of the checkpoint of epoch N is the best
\* validation score so far: best_val_acc after epoch N's tracking step, also
\* when the epoch's own (defined) score is below it.
C6_StoredBest ==
  (AfterSave /\ last_val_acc # NaN) =>
    checkpoint_files[epoch].best_val_acc = best_val_acc

\* ---------------------------------------------------------------------
\* C7: the checkpoint of epoch N records epoch N, the run's best_epoch after
\* epoch N's tracking step and the run's LR after epoch N's decay step, which
\* is the rate of the optimizer the next epoch trains with; no later step of
\* the run changes these fields, up to the reload at the end.
C7_Saved ==
  /\ (pc \in {"log", "stop", "load_best", "done"}) =>
       /\ checkpoint_files[epoch].epoch = epoch
       /\ checkpoint_files[epoch].best_epoch = best_epoch
       /\ checkpoint_files[epoch].LR = LR
  /\ (pc \in {"epoch_head", "train", "eval", "decay"} /\ epoch >= 2) =>
       /\ checkpoint_files[epoch - 1].epoch = epoch - 1
       /\ checkpoint_files[epoch - 1].best_epoch = best_epoch
       /\ checkpoint_files[epoch - 1].LR = LR
       /\ checkpoint_files[epoch - 1].LR = optimizer.lr
C7_Stable ==
  \A k \in DOMAIN checkpoint_files :
    /\ k \in DOMAIN checkpoint_files'
    /\ checkpoint_files'[k].epoch = k
    /\ checkpoint_files'[k].best_epoch = checkpoint_files[k].best_epoch
    /\ checkpoint_files'[k].LR = checkpoint_files[k].LR
C7_RoundTrip ==
  /\ []C7_Saved
  /\ [][C7_Stable]_vars

\* the best epoch's checkpoint was reloaded three epochs after it was
\* written, with a decay in between
C7_Witness ==
  /\ pc = "done" /\ epoch = 5 /\ returned.best_epoch = 2
  /\ checkpoint_files[2].best_epoch = 2 /\ checkpoint_files[2].LR = CallerLR
  /\ checkpoint_files[1].best_epoch = 1
  /\ checkpoint_files[5].LR < CallerLR

\* ---------------------------------------------------------------------
\* C8: for auc and for f1, a label whose metric computation fails gets nan,
\* the aggregation is not aborted, and the table returned has one row per
\* label of the task mode.
C8_Isolated ==
  /\ ev_pc # "raised"
  /\ (ev_pc = "returned" /\ ev_metric \in {"auc", "f1"}) =>
       /\ Len(ev_returned.metric_df) = Len(ModeLabels(multiclass))
       /\ \A k \in 1..Len(ev_returned.metric_df) :
            /\ ev_returned.metric_df[k].label = ModeLabels(multiclass)[k]
            /\ ModeLabels(multiclass)[k] \in dataset.undefined
                 => ev_returned.metric_df[k].value = NaN

\* ---------------------------------------------------------------------
\* C9: for a dataset of n >= 1 samples and batches of 16, n prediction and n
\* truth records are made, in dataset order; record i of each carries the
\* identifier of dataset position i and the values of sample i, and no
\* identifier lookup is out of range.
C9_Aligned ==
  /\ error # "IndexError"
  /\ ev_pc = "batches" =>
       Len(pred_df) = (IF BATCH_SIZE * batch < dataset.size
                         THEN BATCH_SIZE * batch ELSE dataset.size)
  /\ ev_pc \in {"columns", "returned"} =>
       /\ Len(pred_df) = dataset.size
       /\ Len(true_df) = dataset.size
       /\ \A k \in 1..dataset.size :
            /\ pred_df[k].ImageIndex = <<"image", k - 1>>
            /\ true_df[k].ImageIndex = <<"image", k - 1>>
            /\ pred_df[k].sample = k - 1
            /\ true_df[k].sample = k - 1
  /\ ev_pc = "returned" /\ ev_metric \in {"auc", "f1"} => ev_returned.pred_df = pred_df

\* 17 samples: a full batch and a batch of one, the last record that of the
\* dataset's last position
C9_Witness ==
  /\ ev_pc = "returned" /\ ev_metric = "auc"
  /\ dataset.size = BATCH_SIZE + 1
  /\ batch = 2
  /\ Len(ev_returned.pred_df) = BATCH_SIZE + 1
  /\ ev_returned.pred_df[BATCH_SIZE + 1].ImageIndex = <<"image", BATCH_SIZE>>

\* ---------------------------------------------------------------------
RECURSIVE MaxScore(_, _)
\* the largest of 0 and the defined scores among the first n
MaxScore(scores, n) ==
  IF n = 0 THEN InitBestValAcc
  ELSE LET m == MaxScore(scores, n - 1)
       IN  IF scores[n] # NaN /\ scores[n] > m THEN scores[n] ELSE m

\* the logged epochs whose score was below the best of the epochs before
DecayingEpochs ==
  {n \in 1..Len(LoggedScores) :
     LoggedScores[n] # NaN /\ LoggedScores[n] < MaxScore(LoggedScores, n - 1)}

\* C10: a decay step divides LR by 10 and puts a new optimizer with the new
\* rate and the run's weight decay in place; the optimizer in use always has
\* the run's LR, which is the base rate over 10^d for d the number of
\* completed epochs that decayed, and the rate never increases.
C10_Optimizer ==
  /\ InLoop \/ pc = "load_best" =>
       /\ optimizer.lr = LR
       /\ optimizer.weight_decay = CallerWD
       /\ weight_decay = CallerWD
  /\ pc \in {"epoch_head", "train", "eval", "stop", "load_best", "done"} =>
       /\ LR * Pow10(Cardinality(DecayingEpochs)) = CallerLR
       /\ optimizer.built = Cardinality(DecayingEpochs)
C10_Step ==
  /\ LR' <= LR
  /\ LR' # LR =>
       /\ LR' * DecayFactor = LR
       /\ optimizer' = [lr |-> LR', weight_decay |-> CallerWD,
                        built |-> optimizer.built + 1]
C10_Decay ==
  /\ []C10_Optimizer
  /\ [][C10_Step]_vars

\* an epoch trains with the optimizer of the second decay
C10_Witness ==
  /\ pc = "train" /\ i = 1
  /\ Cardinality(DecayingEpochs) = 2
  /\ optimizer.lr * DecayFactor * DecayFactor = CallerLR
  /\ optimizer.built = 2

\* Every step of train_cnn and train_model that can be taken is taken: the
\* program is sequential and each of its steps returns.
FairSpec == Spec /\ WF_vars(Next)

\* ---------------------------------------------------------------------------
\* C11
\* ---------------------------------------------------------------------------

LRDecayedThisEpoch == LR # LRBefore(epoch)
BestUpdatedThisEpoch == best_epoch = epoch

\* C11 (as stated): in each completed epoch exactly one of "the best score
\* was updated" and "the learning rate was decayed" happens.
C11_Stated ==
  (pc = "save" /\ ~IsNaN(last_val_acc)) =>
      (LRDecayedThisEpoch <=> ~BestUpdatedThisEpoch)

\* C11 (what the code does): in each epoch at most one of "best updated" and
\* "learning rate decayed" happens; the rate is decayed exactly when the score is
\* defined and strictly below the best so far, the best is updated exactly
\* when it is strictly above, and neither happens when the score is undefined
\* or equal to the best so far.
C11_AtMostOne ==
  pc = "save" =>
      /\ ~(LRDecayedThisEpoch /\ BestUpdatedThisEpoch)
      /\ LRDecayedThisEpoch <=> (~IsNaN(last_val_acc) /\ last_val_acc < best_val_acc)
      /\ (~LRDecayedThisEpoch /\ ~BestUpdatedThisEpoch) <=>
            (IsNaN(last_val_acc) \/ (best_epoch # epoch /\ last_val_acc = best_val_acc))

\* An epoch whose score ties the best so far: no decay and no update.
C11_Witness ==
  /\ pc = "save"
  /\ epoch = 2
  /\ last_val_acc = 300
  /\ best_val_acc = 300
  /\ best_epoch = 1
  /\ LR = CallerLR

\* ---------------------------------------------------------------------------
\* C12
\* ---------------------------------------------------------------------------

\* results/ was there when train_cnn was called and the call has not ended
ResultsDirPresentAtCall == results_dir /\ pc \in {"train_cnn", "check_results"}

StaleContents ==
  /\ results_dir
  /\ checkpoint_files = [e \in {1} |-> StaleCheckpoint]
  /\ log_train = StaleRows
  /\ logger = <<"stale">>
  /\ preds_csv = [origin |-> "stale", steps |-> 0]
  /\ aucs_csv = NoTable

NothingRan ==
  /\ epoch = 0
  /\ i = 0
  /\ model = NoModel
  /\ optimizer = NoOptimizer
  /\ dataloaders = "none"
  /\ returned = NoReturn
  /\ error = "none"

\* C12: when results/ exists at the call, train_cnn ends without training:
\* every step of the call leaves the directory and everything in it as it
\* was, no epoch runs, nothing is created or appended, and the call ends by
\* returning.
C12_NoOverwrite ==
  /\ [](ResultsDirPresentAtCall => (StaleContents /\ NothingRan))
  /\ []((results_dir /\ pc = "returned_none") => (StaleContents /\ NothingRan))
  /\ [][ResultsDirPresentAtCall =>
          /\ UNCHANGED <<fileVars, netVars, runVars, dataloaders, returned, error>>
          /\ pc' \in {"check_results", "returned_none"}]_vars

\* The call has ended on the existing directory (the orientation was valid).
C12_Witness ==
  /\ pc = "returned_none"
  /\ orientation = "all"
  /\ StaleContents
  /\ NothingRan

\* ---------------------------------------------------------------------------
\* C13
\* ---------------------------------------------------------------------------

\* train_cnn has ended on a configuration error
ConfigErrorReported ==
  \/ pc = "returned_none"
  \/ pc = "raised" /\ error = "ValueError"

\* C13 (as stated): every configuration error (invalid orientation, results
\* directory present, missing accelerator) is reported before the results
\* directory and the run log are created, before the datasets and loaders
\* are built and before the network is constructed.
C13_BeforeExpensiveWork ==
  ConfigErrorReported =>
      /\ results_dir => StaleContents
      /\ ~results_dir => logger = <<>>
      /\ dataloaders = "none"
      /\ model = NoModel

\* C13 (what the code does): the orientation and the results directory are
\* checked before anything is created; the accelerator is checked after the
\* results directory, the run log and the loaders, before the network.
C13_Order ==
  /\ pc = "returned_none" =>
        /\ results_dir => StaleContents
        /\ ~results_dir => logger = <<>>
        /\ dataloaders = "none"
        /\ model = NoModel
  /\ (pc = "raised" /\ error = "ValueError") =>
        /\ results_dir
        /\ logger = <<"wd_lr", "orientation", "flip", "cross_val">>
        /\ dataloaders = "built"
        /\ model = NoModel

\* ---------------------------------------------------------------------------
\* C14
\* ---------------------------------------------------------------------------

\* an exception of a batch or of the evaluation has ended the run
EpochFailed == pc = "raised" /\ error = "RuntimeError"

\* C14: a failure in a batch of epoch e, or anywhere before epoch e's
\* checkpoint is written, ends the run: nothing runs afterwards (no retry,
\* no later epoch), there is no checkpoint and no log_train row for epoch e,
\* and the checkpoints and rows of epochs 1..e-1 are the ones in place.
C14_Abort ==
  /\ [](EpochFailed =>
          /\ epoch \in 1..MaxEpochs
          /\ DOMAIN checkpoint_files = 1..(epoch - 1)
          /\ Len(DataRows) = epoch - 1
          /\ \A k \in 1..(epoch - 1) :
                /\ checkpoint_files[k].epoch = k
                /\ DataRows[k][1] = k
          /\ returned = NoReturn)
  /\ [][/\ pc # "raised"
        /\ (pc' = "raised" /\ error' = "RuntimeError") =>
              /\ pc \in {"train", "eval"}
              /\ UNCHANGED <<checkpoint_files, log_train, epoch>>]_vars

\* The second batch of epoch 3 has failed; checkpoints 1 and 2 are in place.
C14_Witness ==
  /\ EpochFailed
  /\ epoch = 3
  /\ i = 1
  /\ DOMAIN checkpoint_files = 1..2
  /\ Len(log_train) = 3

\* ---------------------------------------------------------------------------
\* C15
\* ---------------------------------------------------------------------------

BeforeTrainModel ==
  pc \in {"train_cnn", "check_results", "build_data", "check_gpu",
          "returned_none", "raised"}

\* C15: without an accelerator train_cnn ends in a fatal error before
\* train_model is entered: no network or optimizer is built, no epoch and no
\* batch runs, no checkpoint and no log_train row is written.
C15_NoGpu ==
  /\ [](~use_gpu =>
          /\ BeforeTrainModel
          /\ pc = "raised" => error = "ValueError"
          /\ model = NoModel
          /\ optimizer = NoOptimizer
          /\ epoch = 0
          /\ i = 0
          /\ results_dir /\ pc # "returned_none" /\ pc \notin {"train_cnn", "check_results"} =>
                (checkpoint_files = [e \in {} |-> StaleCheckpoint] /\ log_train = <<>>)
          /\ returned = NoReturn)
  /\ [][(~use_gpu /\ pc = "check_gpu") => (pc' = "raised" /\ error' = "ValueError")]_vars

\* The accelerator check has raised, after results/ and its log were made.
C15_Witness ==
  /\ ~use_gpu
  /\ pc = "raised"
  /\ error = "ValueError"
  /\ results_dir
  /\ checkpoint_files = [e \in {} |-> StaleCheckpoint]
  /\ epoch = 0

\* ---------------------------------------------------------------------------
\* C16
\* ---------------------------------------------------------------------------

Terminated == pc \in {"done", "raised", "returned_none"}
LoopLeft == pc \in {"load_best", "done"} \/ (pc = "raised" /\ error = "FileNotFoundError")
StopConditionHolds == (epoch - best_epoch) >= Patience

\* C16: train_model eventually terminates; it runs at most max_epochs
\* epochs, and without a failure it leaves the epoch loop only at the end
\* of an epoch, because epoch - best_epoch >= 3 holds there or because epoch
\* max_epochs has completed; otherwise it goes on to the next epoch.
C16_Terminates ==
  /\ <>Terminated
  /\ [](epoch <= MaxEpochs)
  /\ [](LoopLeft => (StopConditionHolds \/ epoch = MaxEpochs))
  /\ [][/\ (InLoop /\ ~InLoop') => (pc = "stop" \/ pc' = "raised")
        /\ pc = "stop" =>
              /\ pc' = "load_best" <=> (StopConditionHolds \/ epoch = MaxEpochs)
              /\ pc' = "epoch_head" <=> ~(StopConditionHolds \/ epoch = MaxEpochs)
              /\ pc' = "epoch_head" => epoch' = epoch + 1
        /\ pc # "stop" => epoch' = epoch \/ (pc = "build_optimizer" /\ epoch' = StartEpoch)]_vars

\* The loop has been left after epoch max_epochs, the stop condition not
\* holding there.
C16_Witness ==
  /\ pc = "load_best"
  /\ epoch = MaxEpochs
  /\ ~StopConditionHolds

\* ---------------------------------------------------------------------------
\* C17
\* ---------------------------------------------------------------------------

LogHeader == <<"epoch", "train_loss", "average auc">>

\* the run made results/ itself: log_train is this run's file
OwnResultsDir == pc \notin {"train_cnn", "check_results", "returned_none"}

\* the epochs of the run whose log_train step has run
Logged == IF pc = "log" THEN epoch - 1 ELSE Completed

\* C17: log_train of a run holds the header row exactly once, as its first
\* row, then exactly one row (epoch, training loss, mean validation score)
\* per completed epoch in increasing epoch order; the row of epoch e is
\* written only after epoch e's checkpoint, and rows are only ever appended.
C17_LogTrain ==
  /\ [](OwnResultsDir =>
          /\ Len(DataRows) = Logged
          /\ (Logged = 0) <=> (log_train = <<>>)
          /\ log_train # <<>> => Head(log_train) = LogHeader
          /\ \A k \in 1..Len(DataRows) :
                /\ DataRows[k][1] = k
                /\ k \in DOMAIN checkpoint_files
                /\ DataRows[k] = <<k, checkpoint_files[k].last_train_loss,
                                      checkpoint_files[k].best_val_acc>>)
  /\ [][log_train' # log_train =>
          /\ pc = "log"
          /\ epoch \in DOMAIN checkpoint_files
          /\ Len(log_train') > Len(log_train)
          /\ SubSeq(log_train', 1, Len(log_train)) = log_train
          /\ log_train'[Len(log_train')] = <<epoch, last_train_loss, last_val_acc>>]_vars

\* Three epochs are logged: the header and the rows of epochs 1, 2, 3.
C17_Witness ==
  /\ pc = "stop"
  /\ epoch = 3
  /\ Len(log_train) = 4
  /\ log_train[1] = LogHeader
  /\ log_train[4][1] = 3

\* ---------------------------------------------------------------------------
\* C18
\* ---------------------------------------------------------------------------

\* positions of an epoch after its evaluation, and of make_pred_multilabel
\* after its first statements
AfterEvaluation == pc \in {"decay", "track", "save", "log", "stop"}
InEvaluation == ev_pc \in {"batches", "columns", "returned"}

\* C18: in every epoch every training batch is processed in training mode
\* and every evaluation batch in inference mode: the epoch head re-enables
\* training mode, which the evaluation of the epoch before had switched off,
\* and no step of the evaluation switches it on.
C18_Modes ==
  /\ [](pc = "train" => model.training)
  /\ []((AfterEvaluation \/ InEvaluation) => ~model.training)
  /\ [][/\ (pc = "train" /\ i' = i + 1) => (model.training /\ model'.training)
        /\ batch' = batch + 1 => (~model.training /\ ~model'.training)
        /\ (pc = "epoch_head" /\ epoch > StartEpoch) => (~model.training /\ model'.training)
        /\ (pc = "eval" \/ ev_pc # ev_pc' \/ batch' # batch \/ column' # column) =>
              ~model'.training]_vars

\* A batch of epoch 2 has been trained in training mode.
C18_Witness ==
  /\ pc = "train"
  /\ epoch = 2
  /\ i = 1
  /\ model.training
  /\ model.steps = NumTrainBatches + 1

\* ---------------------------------------------------------------------------
\* C19
\* ---------------------------------------------------------------------------

Resuming == PATH_TO_CHECKPOINT = "given"

\* the first epoch of train_model, before its evaluation
FirstEpochStarted == pc \in {"epoch_head", "train", "eval"} /\ epoch = StartEpoch

\* C19: a run that resumes from a checkpoint takes only the stored model
\* from it: the optimizer is built with the caller's learning rate and
\* weight decay, not the checkpoint's rate, and the run starts at epoch 1
\* with best_val_acc 0 and best_epoch -1, whatever epoch, best_epoch and LR
\* the checkpoint records.
C19_Resume ==
  /\ []((Resuming /\ FirstEpochStarted) =>
          /\ model.origin = GivenCheckpoint.model.origin
          /\ optimizer = NewOptimizer(CallerLR, CallerWD, 0)
          /\ LR = CallerLR
          /\ LR # GivenCheckpoint.LR
          /\ weight_decay = CallerWD
          /\ epoch # GivenCheckpoint.epoch + 1
          /\ best_val_acc = InitBestValAcc
          /\ best_epoch = NoBestEpoch
          /\ best_epoch # GivenCheckpoint.best_epoch
          /\ log_train = <<>>)
  /\ [][(Resuming /\ pc = "build_model") => model' = GivenCheckpoint.model]_vars
  /\ [][(Resuming /\ pc = "build_optimizer") =>
          /\ optimizer' = NewOptimizer(CallerLR, CallerWD, 0)
          /\ epoch' = StartEpoch
          /\ UNCHANGED model]_vars

\* A resumed run trains the stored model in epoch 1 at the caller's rate.
C19_Witness ==
  /\ Resuming
  /\ pc = "train"
  /\ epoch = StartEpoch
  /\ i = 1
  /\ model.origin = "checkpoint"
  /\ LR = CallerLR

\* ---------------------------------------------------------------------------
\* C20
\* ---------------------------------------------------------------------------

\* a step of make_pred_multilabel: the evaluation of an epoch, or a step of
\* a call followed batch by batch
EvalStep == pc = "eval" \/ ev_pc \in {"called", "batches", "columns"}

\* what a step of the call may change besides its own frames: the mode
\* flag, the prediction and metric files, what it hands back (which
\* train_model keeps as the epoch's metric and score), and the error raised
EvalFrame ==
  /\ model'.origin = model.origin
  /\ model'.steps = model.steps
  /\ dataset' = dataset
  /\ UNCHANGED <<criterion, optimizer, LR, weight_decay>>
  /\ UNCHANGED <<epoch, i, best_loss, best_val_acc, best_epoch, last_train_loss>>
  /\ UNCHANGED <<results_dir, checkpoint_files, log_train, dataloaders, inputVars>>

\* C20: a call of make_pred_multilabel leaves the model parameters, the
\* dataset and the run state (learning rate, optimizer, best_val_acc,
\* best_epoch, checkpoints, log_train) unchanged; it changes only the frames
\* it returns, the model's mode flag and preds.csv and the metric's file.
C20_Effects ==
  /\ [][EvalStep => EvalFrame]_vars
  /\ [](ev_pc \in {"returned", "raised"} =>
          /\ model = [origin |-> "pretrained", steps |-> NumTrainBatches,
                      training |-> FALSE]
          /\ optimizer = NewOptimizer(CallerLR, CallerWD, 0)
          /\ LR = CallerLR
          /\ best_val_acc = InitBestValAcc
          /\ best_epoch = NoBestEpoch
          /\ checkpoint_files = [e \in {} |-> StaleCheckpoint]
          /\ log_train = <<>>)

\* A call on 33 samples has returned: three batches, files written.
C20_Witness ==
  /\ ev_pc = "returned"
  /\ dataset.size = 2 * BATCH_SIZE + 1
  /\ batch = 3
  /\ ~model.training
  /\ model.steps = NumTrainBatches
  /\ preds_csv = [origin |-> "pretrained", steps |-> NumTrainBatches]
  /\ ev_returned # NoEvalReturn

\* ---------------------------------------------------------------------------
\* C21
\* ---------------------------------------------------------------------------

\* the scores of the epochs whose tracking step has run: the logged ones,
\* and the current epoch's between its tracking step and its log row
TrackedScores ==
  IF pc \in {"save", "log"} THEN Append(LoggedScores, last_val_acc) ELSE LoggedScores

\* the epochs among the first n whose score is s
EpochsScoring(scores, n, s) == {k \in 1..n : scores[k] = s}

\* the smallest element of a non-empty set of epochs
Earliest(S) == CHOOSE k \in S : \A j \in S : k <= j

\* C21: after every epoch's tracking step best_val_acc is the largest of 0
\* and the defined scores of the epochs so far; best_epoch is -1 when no
\* score so far exceeded 0 and otherwise the earliest epoch whose score is
\* best_val_acc; best_epoch never exceeds the current epoch, and
\* best_val_acc never decreases.
C21_Best ==
  /\ [](OwnResultsDir =>
          LET n == Len(TrackedScores)
              best == MaxScore(TrackedScores, n)
          IN  /\ best_val_acc = best
              /\ best_val_acc >= InitBestValAcc
              /\ best_epoch <= epoch
              /\ (best_epoch = NoBestEpoch) <=> (best = InitBestValAcc)
              /\ best_epoch # NoBestEpoch =>
                    /\ best_epoch \in 1..n
                    /\ TrackedScores[best_epoch] = best_val_acc
                    /\ best_epoch = Earliest(EpochsScoring(TrackedScores, n, best)))
  /\ [][best_val_acc' >= best_val_acc]_vars

\* Epoch 3 repeats the best score that epoch 2 set: best_epoch stays 2.
C21_Witness ==
  /\ pc = "stop"
  /\ epoch = 3
  /\ LoggedScores = <<300, 420, 420>>
  /\ best_val_acc = 420
  /\ best_epoch = 2

\* ---------------------------------------------------------------------------
\* C22
\* ---------------------------------------------------------------------------

\* the epoch's evaluation found every per-label metric undefined
UndefinedEpoch ==
  /\ AfterEvaluation
  /\ metric # NoTable
  /\ \A k \in 1..Len(metric) : IsNaN(metric[k].value)

\* best_epoch as the epoch before left it
BestEpochBefore(ep) ==
  IF ep = StartEpoch THEN NoBestEpoch ELSE checkpoint_files[ep - 1].best_epoch

PredsOf(m) == [origin |-> m.origin, steps |-> m.steps]

\* train_model has ended, and the last epoch whose evaluation ran to its end
RunEnded == pc \in {"done", "raised"} /\ error # "ValueError"
LastEvaluated == IF pc = "raised" /\ error = "RuntimeError" THEN epoch - 1 ELSE epoch

\* C23: every evaluation writes preds.csv and aucs.csv anew and the terminal
\* step writes neither: when train_model ends they hold the evaluation of
\* the last evaluated epoch's model, which is the returned best-epoch model
\* only when best_epoch is that epoch.
C23_Artifacts ==
  /\ []((RunEnded /\ LastEvaluated >= 1) =>
          /\ preds_csv.steps = LastEvaluated * NumTrainBatches
          /\ preds_csv.origin = model.origin
          /\ aucs_csv = metric
          /\ NanMean(TableValues(aucs_csv)) = LoggedScores[LastEvaluated])
  /\ [](pc = "done" =>
          /\ returned.model.steps = best_epoch * NumTrainBatches
          /\ (preds_csv = PredsOf(returned.model)) <=> (best_epoch = epoch))
  /\ [][/\ pc = "eval" /\ pc' = "decay" =>
              (preds_csv' = PredsOf(model) /\ aucs_csv' = metric')
        /\ pc # "eval" => UNCHANGED <<preds_csv, aucs_csv>>]_vars

\* The run returns the model of epoch 1 while preds.csv holds epoch 4's.
C23_Witness ==
  /\ pc = "done"
  /\ epoch = 4
  /\ best_epoch = 1
  /\ returned.model.steps = NumTrainBatches
  /\ preds_csv.steps = 4 * NumTrainBatches
  /\ aucs_csv = metric

====
